---- MODULE Spec2Model ----
(***************************************************************************)
(* Box-transit grid search of Project_3/transit_model.py:                  *)
(* create_flux_model, chi2_test and fit_transit.                           *)
(*                                                                         *)
(* Numbers.  Times, durations, depths, fluxes and uncertainties are exact  *)
(* integers (one time unit, one flux unit = the baseline 1.0).  A          *)
(* chi-square value is an extended rational: a reduced fraction n/m, +inf  *)
(* or NaN, with the IEEE rules for x/0, for sums and for "<".  Rounding of *)
(* binary floating point is not modelled.                                  *)
(*                                                                         *)
(* None is the empty tuple <<>>, a value x that is set is <<x>>.           *)
(* A scalar sigma is the one-element sequence <<s>> (numpy broadcasts it). *)
(***************************************************************************)
EXTENDS Integers, Sequences, FiniteSets, TLC

\* ---------------------------------------------------------------- bounds
MaxTime == 3
MaxDur == 2
MaxStep == 3
MaxSigma == 2

TimeVals == 0 .. MaxTime
DurVals == -1 .. MaxDur
StepVals == 1 .. MaxStep
\* A depth: unphysical, no transit, or a transit that dims the star fully.
DepthVals == {-1, 0, 1}
\* An observed sample: on the baseline, or dimmed by a full-depth transit.
FluxVals == {0, 1}
\* A constant uncertainty inside the contract, and any uncertainty, zero and
\* negative included.
SigmaVals == {1, 2}
AnySigmaVals == -1 .. MaxSigma

VARIABLES
    time, flux, sigma, d_grid, T_grid, t1_step,
    pc, iT, iD, it1, t1_grid, model, chi2,
    best_chi2, best_d, best_T, best_t1, best_model, count,
    call, ret

args == <<time, flux, sigma, d_grid, T_grid, t1_step>>
locals == <<pc, iT, iD, it1, t1_grid, model, chi2>>
best == <<best_chi2, best_d, best_T, best_t1, best_model>>
vars == <<args, locals, best, count, call, ret>>

\* ------------------------------------------------------- optional values
None == <<>>

Some(x) == <<x>>

\* ------------------------------------------------------ extended numbers
Abs(x) == IF x < 0 THEN -x ELSE x

RECURSIVE GCD(_, _)
GCD(a, b) == IF b = 0 THEN a ELSE GCD(b, a % b)

Fin(n, m) ==
    LET g == GCD(Abs(n), m)
    IN  [k |-> "fin", n |-> n \div g, m |-> m \div g]

Inf == [k |-> "inf", n |-> 0, m |-> 1]

NaN == [k |-> "nan", n |-> 0, m |-> 1]

Zero == Fin(0, 1)

\* Slip: the ratio is not squared, (r / s).
SquaredRatioNotSquared(r, s) ==
    IF s = 0 THEN (IF r = 0 THEN NaN ELSE Inf)
    ELSE IF s > 0 THEN Fin(r, s) ELSE Fin(-r, -s)

\* Slip: the squared residual is divided by sigma, not by its square.
SquaredRatioBySigma(r, s) ==
    IF s = 0 THEN (IF r = 0 THEN NaN ELSE Inf)
    ELSE IF s > 0 THEN Fin(r * r, s) ELSE Fin(-(r * r), -s)

\* ((r) / s) ** 2 for one sample: r/0 is +-inf (squared: +inf), 0/0 is NaN.
SquaredRatio(r, s) ==
    IF s = 0 THEN (IF r = 0 THEN NaN ELSE Inf)
    ELSE Fin(r * r, s * s)

Add(a, b) ==
    IF a.k = "nan" \/ b.k = "nan" THEN NaN
    ELSE IF a.k = "inf" \/ b.k = "inf" THEN Inf
    ELSE Fin(a.n * b.m + b.n * a.m, a.m * b.m)

\* a < b on floats: FALSE as soon as one side is NaN.
Less(a, b) ==
    IF a.k = "nan" \/ b.k = "nan" THEN FALSE
    ELSE IF a.k = "inf" THEN FALSE
    ELSE IF b.k = "inf" THEN TRUE
    ELSE a.n * b.m < b.n * a.m

\* Slip: the end of the window is excluded.
create_flux_model_open_end(tm, t_transit, d_transit, t1) ==
    LET t2 == t1 + t_transit
    IN  [i \in 1 .. Len(tm) |->
            IF tm[i] >= t1 /\ tm[i] < t2 THEN 1 - d_transit ELSE 1]

\* ------------------------------------------------------ create_flux_model
create_flux_model(tm, t_transit, d_transit, t1) ==
    LET t2 == t1 + t_transit
    IN  [i \in 1 .. Len(tm) |->
            IF tm[i] >= t1 /\ tm[i] <= t2 THEN 1 - d_transit ELSE 1]

\* ---------------------------------------------------------------- chi2_test
SigmaAt(sg, i) == IF Len(sg) = 1 THEN sg[1] ELSE sg[i]

RECURSIVE SumTo(_, _, _, _)
SumTo(fl, fm, sg, n) ==
    IF n = 0 THEN Zero
    ELSE Add(SumTo(fl, fm, sg, n - 1), SquaredRatio(fl[n] - fm[n], SigmaAt(sg, n)))

chi2_test(fl, fm, sg) == SumTo(fl, fm, sg, Len(fl))

\* ---------------------------------------------------------------- fit_transit
RECURSIVE SeqMin(_, _)
SeqMin(s, n) ==
    IF n = 1 THEN s[1]
    ELSE LET r == SeqMin(s, n - 1) IN IF s[n] < r THEN s[n] ELSE r

RECURSIVE SeqMax(_, _)
SeqMax(s, n) ==
    IF n = 1 THEN s[1]
    ELSE LET r == SeqMax(s, n - 1) IN IF s[n] > r THEN s[n] ELSE r

t_min == SeqMin(time, Len(time))

t_max == SeqMax(time, Len(time))

\* Slip: a zero duration passes.
UnphysicalDurationStrict(T) == T < 0

UnphysicalDuration(T) == T <= 0

T1Max(T) == t_max - T

\* Slip: a window of zero length passes.
WindowTooShortStrict(t1_min, t1_max) == t1_max < t1_min

WindowTooShort(t1_min, t1_max) == t1_max <= t1_min

\* Slip: the half step is left out, np.arange(t1_min, t1_max, step).
T1GridNoHalfStep(t1_min, t1_max, step) ==
    LET num == t1_max - t1_min
        n == IF num <= 0 THEN 0 ELSE (num + step - 1) \div step
    IN  [i \in 1 .. n |-> t1_min + (i - 1) * step]

\* np.arange(start, stop, step) has ceil((stop - start) / step) values
\* start + i * step; here stop = t1_max + step / 2, so the count is
\* ceil((2 * (t1_max - t1_min) + step) / (2 * step)).
T1Grid(t1_min, t1_max, step) ==
    LET num == 2 * (t1_max - t1_min) + step
        n == IF num <= 0 THEN 0 ELSE (num + 2 * step - 1) \div (2 * step)
    IN  [i \in 1 .. n |-> t1_min + (i - 1) * step]

\* Slip: a zero depth is skipped too.
UnphysicalDepthOrZero(d) == d <= 0

UnphysicalDepth(d) == d < 0

\* Slip: an equal score replaces the best, chi2 <= best_chi2.
ImprovesOrTies(c, b) == Less(c, b) \/ (c.k = "fin" /\ c = b)

Improves(c, b) == Less(c, b)

\* Slip: the model of the new best is not stored.
NewBestKeepsModel(c, dv, Tv, t1v, mv) == <<c, Some(dv), Some(Tv), Some(t1v), best_model>>

\* The running best after a strict improvement.
NewBest(c, dv, Tv, t1v, mv) == <<c, Some(dv), Some(Tv), Some(t1v), Some(mv)>>

T == T_grid[iT]

d == d_grid[iD]

t1 == t1_grid[it1]

\* The loop heads reached after the body for the current element ends.
NextDuration ==
    /\ pc' = "forT"
    /\ iT' = iT + 1
    /\ UNCHANGED <<iD, it1>>

NextDepth ==
    IF iD < Len(d_grid)
    THEN pc' = "forD" /\ iD' = iD + 1 /\ UNCHANGED <<iT, it1>>
    ELSE NextDuration

NextStart ==
    IF it1 < Len(t1_grid)
    THEN pc' = "forT1" /\ it1' = it1 + 1 /\ UNCHANGED <<iT, iD>>
    ELSE NextDepth

SkipDuration ==
    /\ pc = "forT"
    /\ iT <= Len(T_grid)
    /\ UnphysicalDuration(T)
    /\ NextDuration
    /\ UNCHANGED <<args, t1_grid, model, chi2, best, count, call, ret>>

SkipWindow ==
    /\ pc = "forT"
    /\ iT <= Len(T_grid)
    /\ ~UnphysicalDuration(T)
    /\ WindowTooShort(t_min, T1Max(T))
    /\ NextDuration
    /\ UNCHANGED <<args, t1_grid, model, chi2, best, count, call, ret>>

BuildGrid ==
    /\ pc = "forT"
    /\ iT <= Len(T_grid)
    /\ ~UnphysicalDuration(T)
    /\ ~WindowTooShort(t_min, T1Max(T))
    /\ t1_grid' = T1Grid(t_min, T1Max(T), t1_step)
    /\ IF Len(d_grid) > 0
       THEN pc' = "forD" /\ iD' = 1 /\ UNCHANGED <<iT, it1>>
       ELSE NextDuration
    /\ UNCHANGED <<args, model, chi2, best, count, call, ret>>

SkipDepth ==
    /\ pc = "forD"
    /\ UnphysicalDepth(d)
    /\ NextDepth
    /\ UNCHANGED <<args, t1_grid, model, chi2, best, count, call, ret>>

EnterStarts ==
    /\ pc = "forD"
    /\ ~UnphysicalDepth(d)
    /\ IF Len(t1_grid) > 0
       THEN pc' = "forT1" /\ it1' = 1 /\ UNCHANGED <<iT, iD>>
       ELSE NextDepth
    /\ UNCHANGED <<args, t1_grid, model, chi2, best, count, call, ret>>

Score ==
    /\ pc = "forT1"
    /\ count' = count + 1
    /\ model' = Some(create_flux_model(time, T, d, t1))
    /\ chi2' = Some(chi2_test(flux, model'[1], sigma))
    /\ LET nb == IF Improves(chi2'[1], best_chi2)
                 THEN NewBest(chi2'[1], d, T, t1, model'[1])
                 ELSE best
       IN  /\ best_chi2' = nb[1]
           /\ best_d' = nb[2]
           /\ best_T' = nb[3]
           /\ best_t1' = nb[4]
           /\ best_model' = nb[5]
    /\ NextStart
    /\ UNCHANGED <<args, t1_grid, call, ret>>

Return ==
    /\ pc = "forT"
    /\ iT > Len(T_grid)
    /\ pc' = "done"
    /\ ret' = <<best_d, best_T, best_t1, best_chi2, best_model, count>>
    /\ UNCHANGED <<args, iT, iD, it1, t1_grid, model, chi2, best, count, call>>

\* -------------------------------------------- direct calls of create_flux_model
\* A caller outside the fitter: any duration, depth and start time.
CallFluxModel ==
    /\ pc = "idle"
    /\ \E Tv \in DurVals, dv \in DepthVals, t1v \in -1 .. MaxTime + 1 :
          /\ call' = Some([t_transit |-> Tv, d_transit |-> dv, t1 |-> t1v])
          /\ ret' = Some(create_flux_model(time, Tv, dv, t1v))
    /\ UNCHANGED <<args, locals, best, count>>

\* ------------------------------------------------------------------ inputs
SortedSeqs(S, n) ==
    {s \in [1 .. n -> S] : \A i \in 1 .. n - 1 : s[i] < s[i + 1]}

\* Strictly increasing sample times, at least one and at most n of them.
TimeSeries(n) == UNION {SortedSeqs(TimeVals, k) : k \in 1 .. n}

Grids(S, n) == UNION {[1 .. k -> S] : k \in 0 .. n}

Scalars(S) == {<<s>> : s \in S}

Start(entry) ==
    /\ pc = entry
    /\ iT = 1
    /\ iD = 1
    /\ it1 = 1
    /\ t1_grid = <<>>
    /\ model = None
    /\ chi2 = None
    /\ best_chi2 = Inf
    /\ best_d = None
    /\ best_T = None
    /\ best_t1 = None
    /\ best_model = None
    /\ count = 0
    /\ call = None
    /\ ret = None

\* fit_transit on arguments inside its contract (sigma > 0, t1_step > 0):
\* up to three samples, one uncertainty for all of them, up to two depths and
\* two durations, the unphysical ones included.
Init ==
    /\ time \in TimeSeries(3)
    /\ flux \in [1 .. Len(time) -> FluxVals]
    /\ sigma \in Scalars(SigmaVals)
    /\ d_grid \in Grids(DepthVals, 2)
    /\ T_grid \in Grids(DurVals, 2)
    /\ t1_step \in StepVals
    /\ Start("forT")

\* fit_transit on any uncertainty, scalar or per sample, zero and negative
\* values included: up to two samples, two depths and one duration.
InitSigma ==
    /\ time \in TimeSeries(2)
    /\ flux \in [1 .. Len(time) -> FluxVals]
    /\ sigma \in Scalars(AnySigmaVals) \cup [1 .. Len(time) -> AnySigmaVals]
    /\ d_grid \in Grids(DepthVals, 2)
    /\ T_grid \in Grids(DurVals, 1)
    /\ t1_step \in StepVals
    /\ Start("forT")

\* create_flux_model called directly.
InitFlux ==
    /\ time \in TimeSeries(MaxTime + 1)
    /\ flux = [i \in 1 .. Len(time) |-> 1]
    /\ sigma = <<1>>
    /\ d_grid = <<>>
    /\ T_grid = <<>>
    /\ t1_step = 1
    /\ Start("idle")

Next ==
    \/ SkipDuration
    \/ SkipWindow
    \/ BuildGrid
    \/ SkipDepth
    \/ EnterStarts
    \/ Score
    \/ Return

Spec == Init /\ [][Next]_vars

SpecSigma == InitSigma /\ [][Next]_vars

SpecFlux == InitFlux /\ [][CallFluxModel]_vars

\* ------------------------------------------------------ terms of the claims
Returned == pc = "done"

GridBuilt == pc \in {"forD", "forT1"}

AboutToScore == pc = "forT1"

Feasible(Tv) == Tv > 0 /\ t_max - Tv > t_min

Physical(dv) == dv >= 0

StartsFor(Tv) == T1Grid(t_min, t_max - Tv, t1_step)

NPhysical(k) == Cardinality({j \in 1 .. k : Physical(d_grid[j])})

RECURSIVE ScoredUpTo(_)
ScoredUpTo(k) ==
    IF k = 0 THEN 0
    ELSE ScoredUpTo(k - 1)
         + (IF Feasible(T_grid[k])
            THEN NPhysical(Len(d_grid)) * Len(StartsFor(T_grid[k]))
            ELSE 0)

\* The scored candidates as index triples <<i, j, k>>: duration T_grid[i],
\* depth d_grid[j], k-th start time of the grid built for T_grid[i].
Scored ==
    UNION {{<<p[1], p[2], k>> : k \in 1 .. Len(StartsFor(T_grid[p[1]]))} :
              p \in {q \in (1 .. Len(T_grid)) \X (1 .. Len(d_grid)) :
                        Feasible(T_grid[q[1]]) /\ Physical(d_grid[q[2]])}}

\* Enumeration order: duration outer, depth middle, start time inner.
Before(x, y) ==
    \/ x[1] < y[1]
    \/ x[1] = y[1] /\ x[2] < y[2]
    \/ x[1] = y[1] /\ x[2] = y[2] /\ x[3] < y[3]

ValT(w) == T_grid[w[1]]

ValD(w) == d_grid[w[2]]

ValT1(w) == StartsFor(ValT(w))[w[3]]

ModelOf(w) == create_flux_model(time, ValT(w), ValD(w), ValT1(w))

ScoreOf(w) == chi2_test(flux, ModelOf(w), sigma)

SigmaPositive == \A i \in 1 .. Len(sigma) : sigma[i] > 0

NoResult == <<None, None, None, Inf, None>>

\* ---------------------------------------------------------------------- C1
\* C1: whatever the grids hold, a depth and duration that are set satisfy
\* best_d >= 0 and best_T > 0, in the running best and in the returned tuple,
\* and every candidate the search is about to score has d >= 0 and T > 0.
C1_PhysicalBest ==
    /\ best_d # None => best_d[1] >= 0
    /\ best_T # None => best_T[1] > 0
    /\ AboutToScore => d >= 0 /\ T > 0
    /\ Returned /\ ret[1] # None /\ ret[2] # None => ret[1][1] >= 0 /\ ret[2][1] > 0

C1_Witness ==
    /\ Returned
    /\ ret[1] # None
    /\ \E j \in 1 .. Len(d_grid) : d_grid[j] < 0
    /\ \E i \in 1 .. Len(T_grid) : T_grid[i] <= 0

\* ---------------------------------------------------------------------- C2
\* C2: count is the number of triples scored so far: the closed-form sum over
\* the durations already finished of (depths >= 0) * (start times), plus the
\* part of the current duration already scored; the returned count is that sum
\* over the whole of T_grid, which is the number of triples passing the filters.
C2_CountExact ==
    /\ pc \in {"forT", "done"} => count = ScoredUpTo(iT - 1)
    /\ pc = "forD" =>
          count = ScoredUpTo(iT - 1) + NPhysical(iD - 1) * Len(StartsFor(T))
    /\ pc = "forT1" =>
          count = ScoredUpTo(iT - 1) + NPhysical(iD - 1) * Len(StartsFor(T))
                  + (it1 - 1)
    /\ Returned =>
          /\ ret[6] = ScoredUpTo(Len(T_grid))
          /\ ret[6] = Cardinality(Scored)

C2_Witness ==
    /\ Returned
    /\ ret[6] >= 2
    /\ \E j \in 1 .. Len(d_grid) : d_grid[j] < 0
    /\ \E i \in 1 .. Len(T_grid) : ~Feasible(T_grid[i])

\* ---------------------------------------------------------------------- C3
\* C3: when every duration of T_grid is <= 0 or does not fit the observed
\* window, fit_transit returns (None, None, None, +inf, None, 0).
C3_Degenerate ==
    Returned /\ (\A i \in 1 .. Len(T_grid) : T_grid[i] <= 0 \/ t_max - T_grid[i] <= t_min)
        => ret = <<None, None, None, Inf, None, 0>>

C3_Witness ==
    /\ Returned
    /\ \E i \in 1 .. Len(T_grid) : T_grid[i] > 0 /\ t_max - T_grid[i] = t_min
    /\ \E j \in 1 .. Len(d_grid) : d_grid[j] >= 0
    /\ \A i \in 1 .. Len(T_grid) : T_grid[i] <= 0 \/ t_max - T_grid[i] <= t_min
    /\ ret = <<None, None, None, Inf, None, 0>>

\* ---------------------------------------------------------------------- C4
\* C4: the returned triple is the first, in enumeration order, of the scored
\* triples whose chi-square is the minimum over all scored triples: no scored
\* triple scores less, and every triple enumerated before it scores strictly
\* more.
C4_FirstMinimum ==
    Returned /\ Scored # {} =>
        LET sc == [w \in Scored |-> ScoreOf(w)]
        IN  \E w \in Scored :
               /\ \A x \in Scored : ~Less(sc[x], sc[w])
               /\ \A x \in Scored : Before(x, w) => Less(sc[w], sc[x])
               /\ ret[1] = Some(ValD(w))
               /\ ret[2] = Some(ValT(w))
               /\ ret[3] = Some(ValT1(w))
               /\ ret[4] = sc[w]
               /\ ret[5] = Some(ModelOf(w))

\* An exact tie the order decides: the later triple has the smaller depth.
C4_Witness ==
    /\ Returned
    /\ \E x \in Scored, y \in Scored :
          /\ Before(x, y)
          /\ ScoreOf(x) = ScoreOf(y)
          /\ ValD(y) < ValD(x)
          /\ ret[4] = ScoreOf(x)
          /\ ret[1] = Some(ValD(x))
          /\ ret[2] = Some(ValT(x))
          /\ ret[3] = Some(ValT1(x))

\* ---------------------------------------------------------------------- C5
\* C5: every triple about to be scored has its transit inside the observed
\* window: t_min <= t1, t1 <= t1_max = t_max - T and t1 + T <= t_max.
C5_InsideWindow ==
    AboutToScore => t_min <= t1 /\ t1 <= T1Max(T) /\ t1 + T <= t_max

\* ---------------------------------------------------------------------- C7
\* C7: when the observed flux is exactly the model of a scored triple
\* (T0, d0, t0) and sigma > 0, the returned chi-square is 0 and the returned
\* model is the observed flux; if a sample lies in [t0, t0 + T0] and d0 > 0,
\* the returned depth is d0.
C7_NoiseFree ==
    Returned /\ SigmaPositive =>
        \A w \in Scored :
            ModelOf(w) = flux =>
                /\ ret[4] = Zero
                /\ ret[5] = Some(flux)
                /\ (/\ ValD(w) > 0
                    /\ \E i \in 1 .. Len(time) :
                          ValT1(w) <= time[i] /\ time[i] <= ValT1(w) + ValT(w))
                   => ret[1] = Some(ValD(w))

\* The matching triple is not the first one scored and has a sample in transit.
C7_Witness ==
    /\ Returned
    /\ SigmaPositive
    /\ \E w \in Scored :
          /\ ModelOf(w) = flux
          /\ ValD(w) > 0
          /\ \E i \in 1 .. Len(time) : flux[i] # 1
          /\ \E x \in Scored : Before(x, w) /\ ModelOf(x) # flux
          /\ ret[1] = Some(ValD(w))

C10_ResultShape ==
    SigmaPositive =>
        /\ count = 0 => <<best_d, best_T, best_t1, best_chi2, best_model>> = NoResult
        /\ count >= 1 =>
              /\ best_d # None /\ best_T # None /\ best_t1 # None /\ best_model # None
              /\ best_chi2.k = "fin" /\ best_chi2.n >= 0
              /\ Len(best_model[1]) = Len(time)
              /\ best_model[1] = create_flux_model(time, best_T[1], best_d[1], best_t1[1])
              /\ best_chi2 = chi2_test(flux, best_model[1], sigma)
        /\ Returned =>
              /\ ret = <<best_d, best_T, best_t1, best_chi2, best_model, count>>
              /\ (ret[6] = 0) <=> (<<ret[1], ret[2], ret[3], ret[4], ret[5]>> = NoResult)

\* Durations fit, every depth is negative: nothing scored, no result.
C10_Witness ==
    /\ Returned
    /\ SigmaPositive
    /\ \E i \in 1 .. Len(T_grid) : Feasible(T_grid[i])
    /\ Len(d_grid) >= 1
    /\ \A j \in 1 .. Len(d_grid) : d_grid[j] < 0
    /\ ret = <<None, None, None, Inf, None, 0>>

\* ---------------------------------------------------------------------- C6
\* C6: create_flux_model(time, T, d, t1) has the length of time, and its i-th
\* value is 1 - d exactly when t1 <= time[i] <= t1 + T and 1 otherwise, for
\* any duration and depth, the negative ones included (a negative duration
\* leaves every value at 1).
C6_BoxModel ==
    call # None =>
        LET a == call[1]
            r == ret[1]
        IN  /\ Len(r) = Len(time)
            /\ \A i \in 1 .. Len(time) :
                  /\ (a.t1 <= time[i] /\ time[i] <= a.t1 + a.t_transit) => r[i] = 1 - a.d_transit
                  /\ ~(a.t1 <= time[i] /\ time[i] <= a.t1 + a.t_transit) => r[i] = 1
            /\ a.t_transit < 0 => \A i \in 1 .. Len(time) : r[i] = 1

\* A negative depth, and samples on both ends of the window.
C6_Witness ==
    /\ call # None
    /\ call[1].d_transit < 0
    /\ call[1].t_transit > 0
    /\ \E i \in 1 .. Len(time), j \in 1 .. Len(time) :
          /\ time[i] = call[1].t1
          /\ time[j] = call[1].t1 + call[1].t_transit
          /\ ret[1][i] = 2
          /\ ret[1][j] = 2

\* ---------------------------------------------------------------------- C9
SomeZeroSigma == \E i \in 1 .. Len(sigma) : sigma[i] = 0

RECURSIVE SigmaSqProduct(_)
SigmaSqProduct(n) ==
    IF n = 0 THEN 1
    ELSE SigmaSqProduct(n - 1) * SigmaAt(sigma, n) * SigmaAt(sigma, n)

\* Sum of (flux_i - model_i)^2 / sigma_i^2 over the common denominator
\* SigmaSqProduct(Len(time)), for the model scored last.
RECURSIVE WeightedSquares(_)
WeightedSquares(n) ==
    IF n = 0 THEN 0
    ELSE WeightedSquares(n - 1)
         + (flux[n] - model[1][n]) * (flux[n] - model[1][n])
           * (SigmaSqProduct(Len(time)) \div (SigmaAt(sigma, n) * SigmaAt(sigma, n)))

\* C9 as stated: an uncertainty that is zero or negative makes the chi-square
\* of a scored model infinite or undefined; strictly positive uncertainties
\* give the finite sum of squares, which is >= 0.
C9_NonPositiveNotFinite ==
    chi2 # None =>
        /\ (\E i \in 1 .. Len(sigma) : sigma[i] <= 0) => chi2[1].k \in {"inf", "nan"}
        /\ SigmaPositive =>
              chi2[1] = Fin(WeightedSquares(Len(time)), SigmaSqProduct(Len(time)))

\* C9 amended: a zero uncertainty makes the chi-square of every scored model
\* +inf, or NaN when the residual at such a sample is zero, and fit_transit
\* then never replaces its best and returns the no-result state with the
\* count of what it scored; uncertainties that are all non-zero, negative
\* ones included, give the finite sum of squares, which is >= 0.
C9_ZeroNotFinite ==
    /\ SomeZeroSigma => <<best_d, best_T, best_t1, best_chi2, best_model>> = NoResult
    /\ Returned /\ SomeZeroSigma => ret = <<None, None, None, Inf, None, count>>
    /\ chi2 # None =>
          /\ SomeZeroSigma =>
                chi2[1] = IF \E i \in 1 .. Len(time) :
                                SigmaAt(sigma, i) = 0 /\ flux[i] = model[1][i]
                          THEN NaN ELSE Inf
          /\ ~SomeZeroSigma =>
                /\ chi2[1].k = "fin"
                /\ chi2[1].n >= 0
                /\ chi2[1] = Fin(WeightedSquares(Len(time)), SigmaSqProduct(Len(time)))

\* A negative uncertainty at one sample and a finite, positive chi-square.
C9_Witness ==
    /\ chi2 # None
    /\ \E i \in 1 .. Len(sigma) : sigma[i] < 0
    /\ \E i \in 1 .. Len(sigma) : sigma[i] > 1
    /\ chi2[1].k = "fin"
    /\ chi2[1].n > 0
    /\ chi2[1].m > 1

====
